---------------------------- MODULE Spec2Model ----------------------------
(***************************************************************************)
(* Particle simulation of the Cosmic Nebula Heart (src/main.js): the       *)
(* system builder, the explode impulse and the per-frame integrator.       *)
(*                                                                         *)
(* Numbers are fixed point.  A Float32Array cell (position, target,        *)
(* velocity) holds an integer number of 1/Scale units; an angle is an      *)
(* integer number of 1/Scale radians; elapsed time is an integer number    *)
(* of 1/Scale seconds; a Math.random() output is an integer number of      *)
(* 1/RandScale in [0, 1).  Every store rounds to the nearest unit, ties    *)
(* to even, as a Float32Array store does.                                  *)
(***************************************************************************)
EXTENDS Integers, Sequences, FiniteSets

VARIABLES CONFIG, seed, mainHeart, auraHeart, uiOpacity, time, frame, events

vars == <<CONFIG, seed, mainHeart, auraHeart, uiOpacity, time, frame, events>>

(***************************************************************************)
(* Bounds of the model.                                                    *)
(***************************************************************************)
particleCount == 2
auraCount == 1
MaxFrames == 3
MaxEvents == 2

(***************************************************************************)
(* Number representation.                                                  *)
(***************************************************************************)
Scale == 100
RandScale == 300 * Scale
TrigScale == 10 * Scale
PI == 314
Damping == 94

Abs(n) == IF n < 0 THEN -n ELSE n

\* n / d rounded to the nearest integer, ties to even (d > 0).
RoundDiv(n, d) ==
    LET q == n \div d
        r == n % d
    IN  IF 2 * r < d THEN q
        ELSE IF 2 * r > d THEN q + 1
        ELSE IF q % 2 = 0 THEN q ELSE q + 1

RECURSIVE SqrtSearch(_, _, _)
SqrtSearch(n, lo, hi) ==
    IF lo >= hi THEN lo
    ELSE LET mid == (lo + hi + 1) \div 2
         IN  IF mid * mid <= n THEN SqrtSearch(n, mid, hi)
             ELSE SqrtSearch(n, lo, mid - 1)

\* Math.sqrt, rounded to the nearest unit (n < 2^31).
Sqrt(n) ==
    LET r == SqrtSearch(n, 0, 46340)
    IN  IF n - r * r > r THEN r + 1 ELSE r

\* Math.sin of an angle of a/Scale radians, in 1/TrigScale units
\* (Bhaskara's rational approximation on each half period).
Sin(a) ==
    LET x == a % (2 * PI)
        h == IF x < PI THEN x ELSE x - PI
        q == h * (PI - h)
        s == RoundDiv(16 * TrigScale * q, 5 * PI * PI - 4 * q)
    IN  IF x < PI THEN s ELSE -s

\* Math.cos, as the sine a quarter period ahead.
Cos(a) == Sin(a + PI \div 2)

\* --- Math: Heart Shape ---
getHeartPoint(t) ==
    LET s  == Sin(t)
        s3 == RoundDiv(RoundDiv(s * s, TrigScale) * s, TrigScale)
    IN  [x |-> RoundDiv(16 * s3 * Scale, TrigScale),
         y |-> RoundDiv((13 * Cos(t) - 5 * Cos(2 * t) - 2 * Cos(3 * t)
                         - Cos(4 * t)) * Scale, TrigScale)]

(***************************************************************************)
(* Configuration.  CONFIG is the configuration object of the program;      *)
(* Configs adds the configuration of the specification's end-to-end        *)
(* scenarios (explosionForce 0, formationSpeed 0.5).  explosionForce is in *)
(* 1/Scale units, formationSpeed in 1/TrigScale units, a colour channel in *)
(* 1/255 units.                                                            *)
(***************************************************************************)
Colors ==
    [inner |-> <<0, 234, 255>>,
     core  |-> <<255, 0, 85>>,
     outer |-> <<255, 170, 0>>,
     aura  |-> <<170, 0, 255>>]

DefaultConfig ==
    [explosionForce |-> 350, formationSpeed |-> 25, colors |-> Colors]

Configs ==
    {DefaultConfig,
     [explosionForce |-> 0, formationSpeed |-> 500, colors |-> Colors]}

(***************************************************************************)
(* Math.random().  A stream is the outputs one particle's creation draws,  *)
(* named by the draw that consumes each; the particle created k-th under   *)
(* seed s draws Streams[s + k - 1] (cyclically).                           *)
(***************************************************************************)
Streams ==
    << [t |-> 0,     rScale |-> 15000, aScale |-> 0,     nX |-> 15000,
        nY |-> 15000, nZ |-> 15000, col |-> 6000,
        pX |-> 15000, pY |-> 15000, pZ |-> 15000],
       [t |-> 7500,  rScale |-> 0,     aScale |-> 15000, nX |-> 15000,
        nY |-> 15000, nZ |-> 15000, col |-> 7500,
        pX |-> 15100, pY |-> 15000, pZ |-> 15000],
       [t |-> 3822,  rScale |-> 29999, aScale |-> 7500,  nX |-> 20000,
        nY |-> 10000, nZ |-> 24000, col |-> 22500,
        pX |-> 15000, pY |-> 15100, pZ |-> 15000],
       [t |-> 15000, rScale |-> 22000, aScale |-> 3000,  nX |-> 5000,
        nY |-> 25000, nZ |-> 15000, col |-> 3000,
        pX |-> 15100, pY |-> 15000, pZ |-> 15995],
       [t |-> 7500,  rScale |-> 29999, aScale |-> 29999, nX |-> 15000,
        nY |-> 12000, nZ |-> 9000,  col |-> 15000,
        pX |-> 15600, pY |-> 14600, pZ |-> 16200] >>

Seeds == 1..Len(Streams)

Draw(s, k) == Streams[((s + k - 2) % Len(Streams)) + 1]

\* The force draws of one explode call: particle i draws ForceDraw(e, i).
ForceStream == <<0, 15000, 29700>>

ForceSeeds == 1..2

ForceDraw(e, i) == ForceStream[((e + i - 2) % Len(ForceStream)) + 1]

\* THREE.Color.lerp by num/den, and multiplyScalar by f/TrigScale.
Lerp(c, d, num, den) ==
    [k \in 1..3 |-> c[k] + RoundDiv((d[k] - c[k]) * num, den)]

MultiplyScalar(c, f) == [k \in 1..3 |-> RoundDiv(c[k] * f, TrigScale)]

White == <<255, 255, 255>>

\* The branch of the colour logic a main particle takes.
ColorClass(tx, ty) ==
    LET dist == Sqrt(tx * tx + ty * ty)
    IN  IF Abs(tx) < 2 * Scale /\ ty > 0 THEN "inner"
        ELSE IF dist > 14 * Scale THEN "outer"
        ELSE "core"

\* The colour of a main particle of a class, with random draw r.
ClassColor(class, r, colors) ==
    CASE class = "inner" -> Lerp(colors.inner, White, 3, 10)
      [] class = "outer" -> Lerp(colors.core, colors.outer, r, RandScale)
      [] OTHER -> MultiplyScalar(colors.core,
                                 800 + RoundDiv(r * 400, RandScale))

AuraColor(r, colors) == Lerp(colors.aura, colors.inner, r, 2 * RandScale)

\* Mutant of createParticle: the colour class is taken from the sampled
\* curve point, before scale and jitter.
createParticleByCurve(d, isAura, colors) ==
    LET p      == getHeartPoint(RoundDiv(d.t * 2 * PI, RandScale))
        half   == RandScale \div 2
        r2     == RoundDiv(d.rScale * d.rScale, RandScale)
        r3     == RoundDiv(r2 * d.rScale, RandScale)
        scale  == IF isAura THEN TrigScale + RoundDiv(d.aScale * 400, RandScale)
                  ELSE 800 + RoundDiv(r3 * 200, RandScale)
        spread == IF isAura THEN 40 ELSE 15
        noiseX == RoundDiv((d.nX - half) * spread * Scale, 10 * RandScale)
        noiseY == RoundDiv((d.nY - half) * spread * Scale, 10 * RandScale)
        noiseZ == RoundDiv((d.nZ - half) * (IF isAura THEN 12 ELSE 5) * Scale,
                           RandScale)
        c      == IF isAura THEN AuraColor(d.col, colors)
                  ELSE ClassColor(ColorClass(p.x, p.y), d.col, colors)
    IN  [target   |-> <<RoundDiv(p.x * scale, TrigScale) + noiseX,
                        RoundDiv(p.y * scale, TrigScale) + noiseY,
                        noiseZ>>,
         position |-> <<RoundDiv((d.pX - half) * 300 * Scale, RandScale),
                        RoundDiv((d.pY - half) * 300 * Scale, RandScale),
                        RoundDiv((d.pZ - half) * 300 * Scale, RandScale)>>,
         color    |-> c,
         velocity |-> <<0, 0, 0>>]

\* One iteration of the builder's loop, with draws d.
createParticle(d, isAura, colors) ==
    LET p      == getHeartPoint(RoundDiv(d.t * 2 * PI, RandScale))
        half   == RandScale \div 2
        r2     == RoundDiv(d.rScale * d.rScale, RandScale)
        r3     == RoundDiv(r2 * d.rScale, RandScale)
        scale  == IF isAura THEN TrigScale + RoundDiv(d.aScale * 400, RandScale)
                  ELSE 800 + RoundDiv(r3 * 200, RandScale)
        spread == IF isAura THEN 40 ELSE 15
        noiseX == RoundDiv((d.nX - half) * spread * Scale, 10 * RandScale)
        noiseY == RoundDiv((d.nY - half) * spread * Scale, 10 * RandScale)
        noiseZ == RoundDiv((d.nZ - half) * (IF isAura THEN 12 ELSE 5) * Scale,
                           RandScale)
        tx     == RoundDiv(p.x * scale, TrigScale) + noiseX
        ty     == RoundDiv(p.y * scale, TrigScale) + noiseY
        tz     == noiseZ
        c      == IF isAura THEN AuraColor(d.col, colors)
                  ELSE ClassColor(ColorClass(tx, ty), d.col, colors)
    IN  [target   |-> <<tx, ty, tz>>,
         position |-> <<RoundDiv((d.pX - half) * 300 * Scale, RandScale),
                        RoundDiv((d.pY - half) * 300 * Scale, RandScale),
                        RoundDiv((d.pZ - half) * 300 * Scale, RandScale)>>,
         color    |-> c,
         velocity |-> <<0, 0, 0>>]

\* --- System Builder ---  (first is the number of particles created
\* before this system, which have consumed the head of the stream)
createParticleSystem(count, size, opacity, isAura, s, first, colors) ==
    LET part(i) == createParticle(Draw(s, first + i), isAura, colors)
    IN  [position |-> [i \in 1..count |-> part(i).position],
         target   |-> [i \in 1..count |-> part(i).target],
         color    |-> [i \in 1..count |-> part(i).color],
         velocity |-> [i \in 1..count |-> part(i).velocity],
         size     |-> size,
         opacity  |-> opacity,
         rotationY |-> 0]

(***************************************************************************)
(* --- Interaction ---                                                     *)
(***************************************************************************)
\* Math.random() * CONFIG.explosionForce + 1.0, for the draw r.
Force(r, explosionForce) == RoundDiv(r * explosionForce, RandScale) + Scale

\* Mutant of Impulse: the direction points from the particle to the centre.
ImpulseInward(pos, force) ==
    LET root == Sqrt(pos[1] * pos[1] + pos[2] * pos[2] + pos[3] * pos[3])
        len  == IF root = 0 THEN Scale ELSE root
    IN  [k \in 1..3 |-> RoundDiv((0 - pos[k]) * force, len)]

\* (x/len) * force on each axis, len being Math.sqrt(x*x + y*y + z*z) || 1.
Impulse(pos, force) ==
    LET root == Sqrt(pos[1] * pos[1] + pos[2] * pos[2] + pos[3] * pos[3])
        len  == IF root = 0 THEN Scale ELSE root
    IN  [k \in 1..3 |-> RoundDiv(pos[k] * force, len)]

\* Mutant of explode: the impulse overwrites the velocity (= for +=).
explodeOverwrite(geo, e, first, explosionForce) ==
    [geo EXCEPT !.velocity =
        [i \in 1..Len(geo.position) |->
            Impulse(geo.position[i],
                    Force(ForceDraw(e, first + i), explosionForce))]]

\* Mutant of explode: the loop stops at the first particle whose position
\* has length zero, as a division fault would stop it.
explodeFaultAtZero(geo, e, first, explosionForce) ==
    LET zeros == {i \in 1..Len(geo.position) : geo.position[i] = <<0, 0, 0>>}
        stop  == IF zeros = {} THEN Len(geo.position) + 1
                 ELSE CHOOSE i \in zeros : \A j \in zeros : i <= j
    IN  [geo EXCEPT !.velocity =
            [i \in 1..Len(geo.position) |->
                IF i >= stop THEN geo.velocity[i]
                ELSE LET imp == Impulse(geo.position[i],
                                        Force(ForceDraw(e, first + i),
                                              explosionForce))
                     IN  [k \in 1..3 |-> geo.velocity[i][k] + imp[k]]]]

\* explode(geo) with force seed e; first is the number of force draws
\* consumed before this call.
explode(geo, e, first, explosionForce) ==
    [geo EXCEPT !.velocity =
        [i \in 1..Len(geo.position) |->
            LET imp == Impulse(geo.position[i],
                               Force(ForceDraw(e, first + i), explosionForce))
            IN  [k \in 1..3 |-> geo.velocity[i][k] + imp[k]]]]

(***************************************************************************)
(* --- Animation Loop ---                                                  *)
(***************************************************************************)
\* Mutant of Damp: the factor is 0.945.
DampWeak(v) == RoundDiv(v * 945, 10 * Scale)

\* Friction/damping of one velocity cell: velocities[i3] *= 0.94.
Damp(v) == RoundDiv(v * Damping, Scale)

\* Math.sin(time * 1.5 + tx * 0.1) * 0.5
Breath(t, tx) ==
    RoundDiv(Sin(RoundDiv(t * 3, 2) + RoundDiv(tx, 10)) * Scale, 2 * TrigScale)

\* Math.abs(velocities[i3]) < 0.1, on the damped x velocity.
Gate(vx) == Abs(vx) < Scale \div 10

\* Mutant of animateParticle: the gate tests the whole velocity, not x.
animateParticleGateAll(pos, vel, target, t, formationSpeed) ==
    LET moved  == [k \in 1..3 |-> pos[k] + vel[k]]
        damped == [k \in 1..3 |-> Damp(vel[k])]
        goal   == <<target[1], target[2], target[3] + Breath(t, target[1])>>
        homed  == [k \in 1..3 |->
                     moved[k] + RoundDiv((goal[k] - moved[k]) * formationSpeed,
                                         TrigScale)]
    IN  [position |-> IF \A k \in 1..3 : Gate(damped[k]) THEN homed ELSE moved,
         velocity |-> damped]

\* Mutant of animateParticle: homing steps away from the target.
animateParticleRepel(pos, vel, target, t, formationSpeed) ==
    LET moved  == [k \in 1..3 |-> pos[k] + vel[k]]
        damped == [k \in 1..3 |-> Damp(vel[k])]
        goal   == <<target[1], target[2], target[3] + Breath(t, target[1])>>
        homed  == [k \in 1..3 |->
                     moved[k] - RoundDiv((goal[k] - moved[k]) * formationSpeed,
                                         TrigScale)]
    IN  [position |-> IF Gate(damped[1]) THEN homed ELSE moved,
         velocity |-> damped]

\* Mutant of animateParticle: homing is a spring that feeds the velocity.
animateParticleSpring(pos, vel, target, t, formationSpeed) ==
    LET moved  == [k \in 1..3 |-> pos[k] + vel[k]]
        damped == [k \in 1..3 |-> Damp(vel[k])]
        goal   == <<target[1], target[2], target[3] + Breath(t, target[1])>>
        pull   == [k \in 1..3 |->
                     RoundDiv((goal[k] - moved[k]) * formationSpeed, TrigScale)]
    IN  [position |-> moved,
         velocity |-> IF Gate(damped[1])
                      THEN [k \in 1..3 |-> damped[k] + pull[k]]
                      ELSE damped]

\* One iteration of animateSystem's loop: the new position and velocity.
animateParticle(pos, vel, target, t, formationSpeed) ==
    LET moved  == [k \in 1..3 |-> pos[k] + vel[k]]
        damped == [k \in 1..3 |-> Damp(vel[k])]
        goal   == <<target[1], target[2], target[3] + Breath(t, target[1])>>
        homed  == [k \in 1..3 |->
                     moved[k] + RoundDiv((goal[k] - moved[k]) * formationSpeed,
                                         TrigScale)]
    IN  [position |-> IF Gate(damped[1]) THEN homed ELSE moved,
         velocity |-> damped]

\* Mutant of animateSystem: the homed position is also written to the
\* target buffer.
animateSystemRetarget(system, t, formationSpeed) ==
    LET step(i) == animateParticle(system.position[i], system.velocity[i],
                                   system.target[i], t, formationSpeed)
    IN  [system EXCEPT
            !.position  = [i \in 1..Len(system.position) |-> step(i).position],
            !.target    = [i \in 1..Len(system.position) |-> step(i).position],
            !.velocity  = [i \in 1..Len(system.position) |-> step(i).velocity],
            !.rotationY = RoundDiv(Sin(RoundDiv(t, 5)) * 15, Scale)]

animateSystem(system, t, formationSpeed) ==
    LET step(i) == animateParticle(system.position[i], system.velocity[i],
                                   system.target[i], t, formationSpeed)
    IN  [system EXCEPT
            !.position  = [i \in 1..Len(system.position) |-> step(i).position],
            !.velocity  = [i \in 1..Len(system.position) |-> step(i).velocity],
            !.rotationY = RoundDiv(Sin(RoundDiv(t, 5)) * 15, Scale)]

\* clock.getElapsedTime(): the samples the clock may show at a frame.  The
\* clock never runs backwards; past the frame cap it shows the last sample.
Times == {0, 105, 314}

ClockSamples == IF frame < MaxFrames THEN {t \in Times : t >= time} ELSE {time}

(***************************************************************************)
(* State machine.                                                          *)
(***************************************************************************)
\* The state once both systems are built, the clock showing t.
Built(t) ==
    /\ CONFIG \in Configs
    /\ seed \in Seeds
    /\ mainHeart = createParticleSystem(particleCount, 40, 90, FALSE, seed, 0,
                                        CONFIG.colors)
    /\ auraHeart = createParticleSystem(auraCount, 120, 30, TRUE, seed,
                                        particleCount, CONFIG.colors)
    /\ uiOpacity = 1
    /\ time = t
    /\ frame = 0
    /\ events = 0

Init == Built(0)

\* Mutant of PointerDown: the aura system is not exploded.
PointerDownMainOnly ==
    /\ events < MaxEvents
    /\ \E e \in ForceSeeds :
         mainHeart' = explode(mainHeart, e, 0, CONFIG.explosionForce)
    /\ uiOpacity' = 0
    /\ events' = events + 1
    /\ UNCHANGED <<CONFIG, seed, auraHeart, time, frame>>

\* window 'pointerdown' listener: hide the text, explode both systems.
PointerDown ==
    /\ events < MaxEvents
    /\ \E e \in ForceSeeds :
         /\ mainHeart' = explode(mainHeart, e, 0, CONFIG.explosionForce)
         /\ auraHeart' = explode(auraHeart, e, Len(mainHeart.position),
                                 CONFIG.explosionForce)
    /\ uiOpacity' = 0
    /\ events' = events + 1
    /\ UNCHANGED <<CONFIG, seed, time, frame>>

\* animate(): one requestAnimationFrame callback.
animate ==
    /\ \E t \in ClockSamples :
         /\ time' = t
         /\ mainHeart' = animateSystem(mainHeart, t, CONFIG.formationSpeed)
         /\ auraHeart' = animateSystem(auraHeart, t, CONFIG.formationSpeed)
    /\ frame' = IF frame < MaxFrames THEN frame + 1 ELSE frame
    /\ UNCHANGED <<CONFIG, seed, uiOpacity, events>>

\* Frames and events in any interleaving, up to MaxFrames frames.
Next ==
    \/ frame < MaxFrames /\ animate
    \/ PointerDown

Spec == Init /\ [][Next]_vars

\* Events during the first MaxFrames frames, then frames for ever.  The
\* clock shows its last sample throughout, and the random stream is the
\* first one.
LastSample == CHOOSE t \in Times : \A u \in Times : u <= t

InitLive == Built(LastSample) /\ seed = 1

NextLive ==
    \/ animate
    \/ frame < MaxFrames /\ PointerDown

\* requestAnimationFrame(animate) re-arms the callback in every frame, so
\* frames keep coming: weak fairness of animate.  AnimateMoves is
\* ENABLED <<animate>>_vars written as a state predicate, and
\* FramesKeepComing is WF_vars(animate) written with it.
AnimateMoves ==
    \E t \in ClockSamples :
       \/ t # time
       \/ frame < MaxFrames
       \/ animateSystem(mainHeart, t, CONFIG.formationSpeed) # mainHeart
       \/ animateSystem(auraHeart, t, CONFIG.formationSpeed) # auraHeart

FramesKeepComing == []<>(~AnimateMoves) \/ []<><<animate>>_vars

LiveSpec ==
    /\ InitLive
    /\ [][NextLive]_vars
    /\ WF_vars(frame < MaxFrames /\ animate)
    /\ FramesKeepComing

(***************************************************************************)
(* Vocabulary of the properties.                                           *)
(***************************************************************************)
Origin == <<0, 0, 0>>

Axes == 1..3

Particles(sys) == 1..Len(sys.position)

\* The systems as createParticleSystem built them.
CreatedMain ==
    createParticleSystem(particleCount, 40, 90, FALSE, seed, 0, CONFIG.colors)

CreatedAura ==
    createParticleSystem(auraCount, 120, 30, TRUE, seed, particleCount,
                         CONFIG.colors)

\* The forces one explode call can draw under the configuration.
PossibleForces ==
    {Force(ForceStream[n], CONFIG.explosionForce) : n \in 1..Len(ForceStream)}

Dot(a, b) == a[1] * b[1] + a[2] * b[2] + a[3] * b[3]

Minus(a, b) == [k \in Axes |-> a[k] - b[k]]

Plus(a, b) == [k \in Axes |-> a[k] + b[k]]

IsEvent == events' = events + 1

\* A step that is no event is a frame.
IsFrame == events' = events

SameAsCreated(sys, created, count) ==
    /\ sys.target = created.target
    /\ sys.color = created.color
    /\ Len(sys.position) = count
    /\ Len(sys.velocity) = count
    /\ Len(sys.target) = count
    /\ Len(sys.color) = count

(***************************************************************************)
(* C1.  After creation every particle of both systems keeps the target and *)
(* the colour it was created with, and each system keeps its particle      *)
(* count in all four buffers: frames and explode triggers change position  *)
(* and velocity only.                                                      *)
(***************************************************************************)
C1_TargetColorCountFixed ==
    /\ SameAsCreated(mainHeart, CreatedMain, particleCount)
    /\ SameAsCreated(auraHeart, CreatedAura, auraCount)

\* Frames and a trigger have run: positions and velocities have changed.
C1_Witness ==
    /\ frame >= 1
    /\ events >= 1
    /\ mainHeart.position # CreatedMain.position
    /\ auraHeart.position # CreatedAura.position
    /\ mainHeart.velocity # CreatedMain.velocity
    /\ auraHeart.velocity # CreatedAura.velocity

ExplodeFrame(old, new) ==
    /\ new.position = old.position
    /\ new.target = old.target
    /\ new.color = old.color
    /\ \A i \in Particles(old) :
         /\ \E f \in PossibleForces :
              new.velocity[i] = Plus(old.velocity[i], Impulse(old.position[i], f))
         /\ old.position[i] # Origin => new.velocity[i] # old.velocity[i]

TwoImpulses(sys, created) ==
    \A i \in Particles(sys) :
       \E f1, f2 \in PossibleForces :
          sys.velocity[i] = Plus(Plus(created.velocity[i],
                                      Impulse(sys.position[i], f1)),
                                 Impulse(sys.position[i], f2))

(***************************************************************************)
(* C2.  One explode call leaves position, target and colour of every       *)
(* particle unchanged and adds an impulse to its velocity (it never        *)
(* overwrites it, so a particle away from the origin never keeps its       *)
(* velocity); two calls with no frame in between leave old velocity plus   *)
(* two impulses along the same, unchanged, position.                       *)
(***************************************************************************)
C2_ExplodeAddsToVelocity ==
    /\ [][IsEvent => /\ ExplodeFrame(mainHeart, mainHeart')
                     /\ ExplodeFrame(auraHeart, auraHeart')]_vars
    /\ [](frame = 0 /\ events = 2 =>
             /\ TwoImpulses(mainHeart, CreatedMain)
             /\ TwoImpulses(auraHeart, CreatedAura))

\* Two triggers and no frame: the particle at (1,0,0) has at least twice
\* the minimum force along x, and has not moved.
C2_Witness ==
    /\ frame = 0
    /\ events = 2
    /\ \E i \in Particles(mainHeart) :
         /\ mainHeart.position[i] = <<Scale, 0, 0>>
         /\ mainHeart.velocity[i][1] >= 2 * Scale
         /\ mainHeart.velocity[i][2] = 0
         /\ mainHeart.velocity[i][3] = 0

\* |a x b| on each axis is within the rounding of a's three cells.
Parallel(a, b) ==
    /\ Abs(a[1] * b[2] - a[2] * b[1]) <= Abs(b[1]) + Abs(b[2])
    /\ Abs(a[2] * b[3] - a[3] * b[2]) <= Abs(b[2]) + Abs(b[3])
    /\ Abs(a[3] * b[1] - a[1] * b[3]) <= Abs(b[3]) + Abs(b[1])

OutwardImpulse(old, new) ==
    \A i \in Particles(old) :
       LET pos == old.position[i]
           dv  == Minus(new.velocity[i], old.velocity[i])
           mag == Sqrt(Dot(dv, dv))
       IN  pos # Origin =>
             /\ Dot(dv, pos) >= 0
             /\ Parallel(dv, pos)
             /\ mag >= Scale - 1
             /\ mag <= Scale + CONFIG.explosionForce + 1
             /\ (CONFIG.explosionForce = 0 /\ Dot(pos, pos) = Scale * Scale)
                   => dv = pos

(***************************************************************************)
(* C3.  In one explode call the velocity change of every particle away     *)
(* from the origin points outward: its dot product with the position is    *)
(* >= 0, it is parallel to the position (up to the rounding of a store),   *)
(* and its length is, to within one unit of rounding, a force in           *)
(* [1.0, 1.0 + explosionForce).  With explosionForce 0 and a position of   *)
(* length one the velocity change equals the position on every axis.       *)
(***************************************************************************)
C3_ImpulseOutward ==
    [][IsEvent => /\ OutwardImpulse(mainHeart, mainHeart')
                  /\ OutwardImpulse(auraHeart, auraHeart')]_vars

\* explosionForce 0, one trigger: the particle at (1,0,0) has velocity
\* (1,0,0), the one at (0,1,0) has velocity (0,1,0).
C3_Witness ==
    /\ CONFIG.explosionForce = 0
    /\ events = 1
    /\ frame = 0
    /\ \E i, j \in Particles(mainHeart) :
         /\ mainHeart.position[i] = <<Scale, 0, 0>>
         /\ mainHeart.velocity[i] = <<Scale, 0, 0>>
         /\ mainHeart.position[j] = <<0, Scale, 0>>
         /\ mainHeart.velocity[j] = <<0, Scale, 0>>

ZeroLengthHandled(old, new) ==
    \A i \in Particles(old) :
       /\ new.velocity[i] \in [Axes -> Int]
       /\ old.position[i] = Origin => new.velocity[i] = old.velocity[i]
       /\ old.position[i] # Origin => new.velocity[i] # old.velocity[i]

(***************************************************************************)
(* C4.  A particle whose position is exactly the origin comes out of an    *)
(* explode call with its velocity unchanged on all three axes, each still  *)
(* a number, and the other particles of the same call receive their        *)
(* impulse.                                                                *)
(***************************************************************************)
C4_ZeroLengthPosition ==
    [][IsEvent => /\ ZeroLengthHandled(mainHeart, mainHeart')
                  /\ ZeroLengthHandled(auraHeart, auraHeart')]_vars

\* A trigger has run on a system holding a particle at the origin, which
\* is still at rest, and a later particle away from it, which is not.
C4_Witness ==
    /\ events >= 1
    /\ frame = 0
    /\ \E i, j \in Particles(mainHeart) :
         /\ i < j
         /\ mainHeart.position[i] = Origin
         /\ mainHeart.velocity[i] = Origin
         /\ mainHeart.position[j] # Origin
         /\ mainHeart.velocity[j] # Origin

AllImpulsed(old, new) ==
    \A i \in Particles(old) :
       /\ \E f \in PossibleForces :
            Minus(new.velocity[i], old.velocity[i]) = Impulse(old.position[i], f)
       /\ old.position[i] # Origin => new.velocity[i] # old.velocity[i]

AllDamped(old, new) ==
    \A i \in Particles(old) :
       \A k \in Axes : new.velocity[i][k] = Damp(old.velocity[i][k])

(***************************************************************************)
(* C5.  Every step is either one whole pointerdown event or one whole      *)
(* frame: an event hides the text and adds one impulse to the velocity of  *)
(* every particle of both systems before any frame runs, and a frame damps *)
(* the velocity of every particle of both systems; no step, and so no      *)
(* state a frame starts from, has the impulse on only some particles or    *)
(* on only one system.                                                     *)
(***************************************************************************)
C5_EventAppliedWhole ==
    [][\/ /\ IsEvent
          /\ frame' = frame
          /\ uiOpacity' = 0
          /\ AllImpulsed(mainHeart, mainHeart')
          /\ AllImpulsed(auraHeart, auraHeart')
       \/ /\ events' = events
          /\ AllDamped(mainHeart, mainHeart')
          /\ AllDamped(auraHeart, auraHeart')]_vars

\* explosionForce 0, one event then one frame: the frame has damped the
\* full impulse 1.0 in a particle of each system.
C5_Witness ==
    /\ CONFIG.explosionForce = 0
    /\ events = 1
    /\ frame = 1
    /\ \E i \in Particles(mainHeart) : mainHeart.velocity[i] = <<Damp(Scale), 0, 0>>
    /\ \E i \in Particles(auraHeart) : auraHeart.velocity[i] = <<0, Damp(Scale), 0>>

AllSystems == {mainHeart, auraHeart}

Below(eps) ==
    \A sys \in AllSystems :
       \A i \in Particles(sys) : \A k \in Axes : Abs(sys.velocity[i][k]) < eps

Epsilons == 1..(Scale \div 10)

(***************************************************************************)
(* C6.  Damping convergence.  As stated: with no further trigger, for      *)
(* every epsilon > 0 every velocity component is, from some frame on,      *)
(* below epsilon in magnitude for ever.  The smallest magnitudes a cell    *)
(* can hold stand for the small epsilons.                                  *)
(***************************************************************************)
C6_BelowEveryEpsilon == \A eps \in Epsilons : <>[]Below(eps)

StallFloor ==
    CHOOSE k \in 0..Scale :
       /\ RoundDiv(k * Damping, Scale) = k
       /\ \A j \in (k + 1)..Scale : RoundDiv(j * Damping, Scale) # j

Shrinks(old, new) ==
    \A i \in Particles(old) :
       \A k \in Axes :
          /\ Abs(new.velocity[i][k]) <= Abs(old.velocity[i][k])
          /\ Abs(old.velocity[i][k]) > StallFloor
                => Abs(new.velocity[i][k]) < Abs(old.velocity[i][k])

(***************************************************************************)
(* C6, amended.  A frame never enlarges a velocity component and shrinks   *)
(* every component above the rounding floor of the store, the largest      *)
(* magnitude that 0.94 rounds back onto itself; for every epsilon above    *)
(* the floor every component is, from some frame on, below epsilon for     *)
(* ever.                                                                   *)
(***************************************************************************)
C6_BelowEpsilonAboveFloor ==
    /\ \A eps \in {e \in Epsilons : e > StallFloor} : <>[]Below(eps)
    /\ [][IsFrame => /\ Shrinks(mainHeart, mainHeart')
                     /\ Shrinks(auraHeart, auraHeart')]_vars

\* After a trigger the frames have brought every component to the floor or
\* below, and some component is still not zero.
C6_Witness ==
    /\ events >= 1
    /\ Below(StallFloor + 1)
    /\ ~Below(1)

GateOpen(sys, i) == Abs(sys.velocity[i][1]) * 10 < Scale

AllGatesOpen ==
    \A sys \in AllSystems : \A i \in Particles(sys) : GateOpen(sys, i)

Homed(old, new, i, t) ==
    LET goal == <<old.target[i][1], old.target[i][2],
                  old.target[i][3] + Breath(t, old.target[i][1])>>
    IN  \A k \in Axes :
           LET moved == old.position[i][k] + old.velocity[i][k]
           IN  new.position[i][k] =
                  moved + RoundDiv((goal[k] - moved) * CONFIG.formationSpeed,
                                   TrigScale)

GateStaysOpen(old, new, t) ==
    \A i \in Particles(old) :
       /\ GateOpen(old, i) => GateOpen(new, i)
       /\ GateOpen(new, i) => Homed(old, new, i, t)

(***************************************************************************)
(* C7.  Re-homing.  With frames running and no further trigger, from some  *)
(* frame on the gate |velocity.x| < 0.1 is open for every particle of both *)
(* systems for ever; a frame never closes an open gate (only a trigger     *)
(* can), and a frame whose gate is open homes the particle.                *)
(***************************************************************************)
C7_RehomingGate ==
    /\ <>[]AllGatesOpen
    /\ [][IsFrame => /\ GateStaysOpen(mainHeart, mainHeart', time')
                     /\ GateStaysOpen(auraHeart, auraHeart', time')]_vars

\* The particle created at (1,0,0) was pushed outward along x by a trigger
\* and its gate, closed by the impulse, is open again.
C7_Witness ==
    /\ events >= 1
    /\ AllGatesOpen
    /\ \E i \in Particles(mainHeart) :
         /\ CreatedMain.position[i] = <<Scale, 0, 0>>
         /\ mainHeart.velocity[i][1] \in 1..StallFloor

IntegrateDampGate(old, new, t) ==
    \A i \in Particles(old) :
       /\ \A k \in Axes : new.velocity[i][k] = Damp(old.velocity[i][k])
       /\ Abs(new.velocity[i][1]) * 10 >= Scale
             => new.position[i] = Plus(old.position[i], old.velocity[i])
       /\ Abs(new.velocity[i][1]) * 10 < Scale => Homed(old, new, i, t)

Goal(sys, i, t) ==
    <<sys.target[i][1], sys.target[i][2],
      sys.target[i][3] + Breath(t, sys.target[i][1])>>

DistSq(a, b) == Dot(Minus(a, b), Minus(a, b))

RestHoming(old, new, t) ==
    \A i \in Particles(old) :
       old.velocity[i] = Origin =>
          LET goal == Goal(old, i, t)
              pos  == old.position[i]
          IN  /\ new.velocity[i] = Origin
              /\ \A k \in Axes :
                    new.position[i][k] =
                       pos[k] + RoundDiv((goal[k] - pos[k])
                                            * CONFIG.formationSpeed, TrigScale)
              /\ DistSq(new.position[i], goal) <= DistSq(pos, goal)
              /\ (\E k \in Axes : 2 * Abs(goal[k] - pos[k])
                                     * CONFIG.formationSpeed > TrigScale)
                    => DistSq(new.position[i], goal) < DistSq(pos, goal)

Sampled(k) == getHeartPoint(RoundDiv(Draw(seed, k).t * 2 * PI, RandScale))

\* The colours a class can give, over the draws of the streams.
ClassColors(class) ==
    {ClassColor(class, Streams[n].col, CONFIG.colors) : n \in 1..Len(Streams)}

AuraColors ==
    {AuraColor(Streams[n].col, CONFIG.colors) : n \in 1..Len(Streams)}

AuraUnclassified == \A i \in Particles(auraHeart) : auraHeart.color[i] \in AuraColors

(***************************************************************************)
(* C10.  Colour classes.  As stated: a main particle's colour class is     *)
(* decided by the sampled curve point (px, py), before scale and jitter    *)
(* (inner iff |px| < 2 and py > 0, else outer iff the point is further     *)
(* than 14 from the centre, else core), and an aura particle is not        *)
(* classified.                                                             *)
(***************************************************************************)
C10_ClassBySampledPoint ==
    /\ \A i \in Particles(mainHeart) :
          mainHeart.color[i] \in ClassColors(ColorClass(Sampled(i).x, Sampled(i).y))
    /\ AuraUnclassified

(***************************************************************************)
(* C10, amended.  A main particle's colour class is decided by its         *)
(* jittered target (tx, ty), with the same thresholds; an aura particle    *)
(* is not classified.                                                      *)
(***************************************************************************)
C10_ClassByTarget ==
    /\ \A i \in Particles(mainHeart) :
          mainHeart.color[i] \in
             ClassColors(ColorClass(mainHeart.target[i][1], mainHeart.target[i][2]))
    /\ AuraUnclassified

\* A main particle whose sampled point is in one class and whose target is
\* in another, coloured by its target's class.
C10_Witness ==
    \E i \in Particles(mainHeart) :
       LET byTarget == ColorClass(mainHeart.target[i][1], mainHeart.target[i][2])
           byCurve  == ColorClass(Sampled(i).x, Sampled(i).y)
       IN  /\ byTarget # byCurve
           /\ mainHeart.color[i] \in ClassColors(byTarget)
           /\ mainHeart.color[i] \notin ClassColors(byCurve)

==========================================================================
